---------------------------- MODULE Spec2Model ----------------------------
(***************************************************************************)
(* Call-centre emotion pipeline: the quality scorer and key-moment         *)
(* extractor of utils.py, the segmentation, the rule-based classifier and  *)
(* the recognizer wrapper of emotion_analysis.py, the analysis run and the *)
(* session state of app.py, and the channel separation, normalization,     *)
(* band-pass filter and quality report of audio_processing.py.             *)
(*                                                                         *)
(* Conventions.  The source indexes from 0, TLA+ sequences from 1: At(s,i) *)
(* reads the element the source calls s[i].  The three emotion labels are  *)
(* written "negative", "neutral", "joy".  A quality score for a timeline   *)
(* of n segments is kept as the exact integer score * Unit(n), with        *)
(* Unit(n) = 10 * max(n, 1): every weight of the scorer is a multiple of   *)
(* 0.1 and the only ratio it adds has denominator n.                       *)
(***************************************************************************)
EXTENDS Integers, Sequences, FiniteSets, TLC

VARIABLES
    pc,            \* which operation has been applied last
    operator,      \* operator_emotions, the frame's operator column
    customer,      \* customer_emotions, the frame's customer column
    quality,       \* calculate_call_quality: returned score and its locals
    key_moments,   \* extract_key_moments: the returned dictionary
    emotions,      \* the label list of count_emotion_sequences,
                   \* map_features_to_emotions and smooth_emotions
    target_emotions, \* count_emotion_sequences: the labels counted
    min_length,    \* count_emotion_sequences: the minimal run length
    count,         \* count_emotion_sequences: the returned count
    features,      \* map_features_to_emotions: the feature vectors
    scores,        \* map_features_to_emotions: each segment's scores dict
    smoothed,      \* smooth_emotions: the returned list
    voice_recognizer, \* EmotionAnalyzer.voice_recognizer
    operator_audio,   \* number of samples of the operator signal
    customer_audio,   \* number of samples of the customer signal
    sample_rate,      \* samples per second of both signals
    branches,         \* the branch each analyze_emotions call of the run took
    input_audio,      \* audio_processing: the array an operation is given
    decoder,          \* separate_channels: the backend that decodes the file
    band,             \* bandpass_filter: lowcut and highcut as requested
    masks,            \* separate_speakers_from_mono: the two masks
    returned,         \* audio_processing: what the operation returns
    segments,         \* extract_features: the segments a vector is made of
    audio_path,       \* get_audio_quality_report: the file behind the path
    report,           \* get_audio_quality_report: the returned dictionary
    processed_files,  \* st.session_state.processed_files
    current_file,     \* st.session_state.current_file
    analysis_results, \* st.session_state.analysis_results
    clock,            \* datetime.now(), in seconds
    last_run          \* the last action of the session and the state before

scorer_vars == <<operator, customer, quality, key_moments>>

streak_vars == <<target_emotions, min_length, count>>

classifier_vars == <<emotions, features, scores, smoothed>>

analyzer_vars == <<voice_recognizer, operator_audio, customer_audio,
                   sample_rate, branches>>

audio_vars == <<input_audio, decoder, band, masks, returned>>

extractor_vars == <<segments>>

report_vars == <<audio_path, report>>

session_vars == <<processed_files, current_file, analysis_results, clock,
                  last_run>>

vars == <<pc, scorer_vars, streak_vars, classifier_vars, analyzer_vars,
          audio_vars, extractor_vars, report_vars, session_vars>>

---------------------------------------------------------------------------
\* Bounds of the model.

\* Every pair of timelines up to this length is an input of the scorer.
MaxLen == 4

\* Recordings have up to this many blocks of one hop each, plus a tail
\* shorter than a hop.
MaxBlocks == 3

\* Recordings are sampled at 100 Hz and at 200 Hz times 1 .. MaxRateSteps.
MaxRateSteps == 3

\* Three-phase timelines reach RecoveryMinLen + LongExtra segments.
LongExtra == 1

\* count_emotion_sequences is applied to every label list up to this length
\* and every minimal run length up to MaxMinLength.
MaxStreakLen == 6

MaxMinLength == 3

\* map_features_to_emotions is applied to every list of at most this many
\* feature vectors.
MaxSegments == 3

\* The signals of an analysis run have at most MaxSamples samples at a rate
\* of at most MaxRate samples per second.
MaxSamples == 6

MaxRate == 2

\* extract_features is given signals of at most this many samples.
MaxSignal == 12

\* The dashboard session runs for this many seconds of the clock.
MaxClock == 3

\* The recognizer returns a dictionary of at most this many emotions.
MaxEmotions == 2

---------------------------------------------------------------------------
\* Labels and small helpers.

EMOTION_CATEGORIES == {"negative", "neutral", "joy"}

None == "None"

Min(a, b) == IF a <= b THEN a ELSE b

Max(a, b) == IF a >= b THEN a ELSE b

At(s, i) == s[i + 1]

\* range(a, b) of the source, as a set of 0-based indices
Range(a, b) == a .. (b - 1)

\* the timestamp column of the frame: np.linspace over the segments,
\* in units of one segment step
Times(n) == [i \in 1..n |-> i - 1]

Unit(n) == 10 * Max(n, 1)

---------------------------------------------------------------------------
\* utils.count_emotion_sequences

\* the loop of lines 20-26: <<count, current_streak>> after the first i labels
RECURSIVE StreakLoop(_, _, _, _)
StreakLoop(labels, targets, minlen, i) ==
    IF i = 0 THEN <<0, 0>>
    ELSE LET prev == StreakLoop(labels, targets, minlen, i - 1)
             cnt == prev[1]
             current_streak == prev[2]
         IN  IF labels[i] \in targets
             THEN <<cnt, current_streak + 1>>
             ELSE <<IF current_streak >= minlen THEN cnt + 1 ELSE cnt, 0>>

\* mutant: the check after the loop is left out
TrailingStreakForgotten(current_streak, minlen) == 0

\* lines 28-30: a run that reaches the end of the list
TrailingStreak(current_streak, minlen) ==
    IF current_streak >= minlen THEN 1 ELSE 0

count_emotion_sequences(labels, targets, minlen) ==
    LET final == StreakLoop(labels, targets, minlen, Len(labels))
    IN  final[1] + TrailingStreak(final[2], minlen)

---------------------------------------------------------------------------
\* utils.calculate_call_quality

\* mutant: any shared label counts, a shared negative one included
positive_match_any_label(op, cu) ==
    Cardinality({i \in 0 .. (Len(cu) - 1) : op[i + 1] = cu[i + 1]})

\* lines 89-93: both parties share a label that is neutral or joy
positive_match(op, cu) ==
    Cardinality({i \in Range(0, Len(cu)) :
        At(op, i) = At(cu, i) /\ At(op, i) \in {"neutral", "joy"}})

\* mutant: the customer's label of the same row is read
negative_mirror_same_row(op, cu) ==
    Cardinality({i \in Range(1, Len(cu)) :
        At(cu, i) = "negative" /\ At(op, i) = "negative"})

\* lines 99-103: the operator answers a negative customer negatively
negative_mirror(op, cu) ==
    Cardinality({i \in Range(1, Len(cu)) :
        At(cu, i - 1) = "negative" /\ At(op, i) = "negative"})

\* df.iloc[:k]
IlocHead(s, k) == SubSeq(s, 1, Min(Max(k, 0), Len(s)))

\* df.iloc[k:] for a negative k: the rows from Len + k on
IlocTail(s, k) == SubSeq(s, Max(Len(s) + k, 0) + 1, Len(s))

\* line 110: df.iloc[:len(df)//3]
start_segment(cu) == IlocHead(cu, Len(cu) \div 3)

\* line 111: df.iloc[-len(df)//3:], where -len(df)//3 is (-len(df))//3
end_segment(cu) == IlocTail(cu, (0 - Len(cu)) \div 3)

CountIn(s, labels) == Cardinality({i \in 1..Len(s) : s[i] \in labels})

RecoveryMinLen == 10

\* lines 109-119: the customer starts negative and ends positive
Recovered(cu) ==
    /\ Len(cu) > RecoveryMinLen
    /\ 10 * CountIn(start_segment(cu), {"negative"})
           > 3 * Len(start_segment(cu))
    /\ 10 * CountIn(end_segment(cu), {"joy", "neutral"})
           > 7 * Len(end_segment(cu))

\* mutant: the upper limit is left out
ClampScoreNoCeiling(score, n) == IF score < 0 THEN 0 ELSE score

\* line 123: max(0.0, min(10.0, score)), in units of 1/Unit(n)
ClampScore(score, n) == Max(0, Min(10 * Unit(n), score))

\* mutant: the score starts at 0.0
BaseScoreFromZero(op, cu) ==
    LET n == Len(cu)
        N == Max(n, 1)
    IN  - Min(20 * N, 3 * N * count_emotion_sequences(op, {"negative"}, 2))
        - Min(10 * N, 1 * N * count_emotion_sequences(cu, {"negative"}, 2))
        + Min(10 * N, 2 * N * count_emotion_sequences(op, {"joy"}, 2))
        + Min(20 * N, 4 * N * count_emotion_sequences(cu, {"joy"}, 2))
        + Min(20 * N, 30 * positive_match(op, cu))
        - Min(10 * N, 3 * N * negative_mirror(op, cu))

\* lines 63-106: the score before the recovery bonus
BaseScore(op, cu) ==
    LET n == Len(cu)
        N == Max(n, 1)
        operator_negative == count_emotion_sequences(op, {"negative"}, 2)
        customer_negative == count_emotion_sequences(cu, {"negative"}, 2)
        operator_positive == count_emotion_sequences(op, {"joy"}, 2)
        customer_positive == count_emotion_sequences(cu, {"joy"}, 2)
    IN  50 * N
        - Min(20 * N, 3 * N * operator_negative)
        - Min(10 * N, 1 * N * customer_negative)
        + Min(10 * N, 2 * N * operator_positive)
        + Min(20 * N, 4 * N * customer_positive)
        + Min(20 * N, 30 * positive_match(op, cu))
        - Min(10 * N, 3 * N * negative_mirror(op, cu))

calculate_call_quality(op, cu) ==
    LET n == Len(cu)
        recovery == Recovered(cu)
        unclamped == BaseScore(op, cu) + IF recovery THEN 2 * Unit(n) ELSE 0
    IN  [score |-> ClampScore(unclamped, n),
         unclamped |-> unclamped,
         recovery |-> recovery,
         negative_mirror |-> negative_mirror(op, cu)]

---------------------------------------------------------------------------
\* utils.extract_key_moments

\* mutant: the previous label is not looked at
TurnsNegativeNoEdge(cu, i) == cu[i + 1] = "negative"

\* line 142: the customer turns negative at index i
TurnsNegative(cu, i) ==
    At(cu, i) = "negative" /\ At(cu, i - 1) # "negative"

\* lines 140-143: the list after the iteration for index i
RECURSIVE NegativePointsLoop(_, _, _)
NegativePointsLoop(cu, time, i) ==
    IF i < 1 THEN <<>>
    ELSE LET before == NegativePointsLoop(cu, time, i - 1)
         IN  IF TurnsNegative(cu, i)
             THEN Append(before, At(time, i))
             ELSE before

negative_points(op, cu) ==
    NegativePointsLoop(cu, Times(Len(cu)), Len(cu) - 1)

\* mutant: the customer's label of the same segment is read
FailsToAdaptSameSegment(op, cu, i) ==
    /\ cu[i + 1] = "negative"
    /\ op[i + 1] \notin {"neutral", "joy"}

\* lines 150-151: the operator does not adapt at index i
FailsToAdapt(op, cu, i) ==
    /\ At(cu, i - 1) = "negative"
    /\ At(op, i) \notin {"neutral", "joy"}

\* lines 148-152: the list after the iteration for index i
RECURSIVE BadResponseLoop(_, _, _, _)
BadResponseLoop(op, cu, time, i) ==
    IF i < 1 THEN <<>>
    ELSE LET before == BadResponseLoop(op, cu, time, i - 1)
         IN  IF FailsToAdapt(op, cu, i)
             THEN Append(before, At(time, i))
             ELSE before

bad_response_points(op, cu) ==
    BadResponseLoop(op, cu, Times(Len(cu)), Len(cu) - 1)

\* mutant: the operator's label of the same segment is read
CalmsDownSameSegment(op, cu, i) ==
    /\ cu[i - 1] = "negative"
    /\ op[i + 1] \in {"neutral", "joy"}
    /\ cu[i + 1] \in {"neutral", "joy"}

\* lines 159-161: the operator calmed the customer down by index i
CalmsDown(op, cu, i) ==
    /\ At(cu, i - 2) = "negative"
    /\ At(op, i - 1) \in {"neutral", "joy"}
    /\ At(cu, i) \in {"neutral", "joy"}

\* lines 157-162: the list after the iteration for index i
RECURSIVE GoodResponseLoop(_, _, _, _)
GoodResponseLoop(op, cu, time, i) ==
    IF i < 2 THEN <<>>
    ELSE LET before == GoodResponseLoop(op, cu, time, i - 1)
         IN  IF CalmsDown(op, cu, i)
             THEN Append(before, At(time, i))
             ELSE before

good_responses(op, cu) ==
    GoodResponseLoop(op, cu, Times(Len(cu)), Len(cu) - 1)

extract_key_moments(op, cu) ==
    [negative_customer |-> negative_points(op, cu),
     bad_responses |-> bad_response_points(op, cu),
     good_responses |-> good_responses(op, cu)]

---------------------------------------------------------------------------
\* emotion_analysis.EmotionAnalyzer

\* lines 74-82
emotion_mapping ==
    [anger |-> "negative", disgust |-> "negative", fear |-> "negative",
     happiness |-> "joy", sadness |-> "negative", surprise |-> "neutral",
     neutral |-> "neutral"]

\* dict.get(key, default)
DictGet(dict, key, default) ==
    IF key \in DOMAIN dict THEN dict[key] ELSE default

\* line 85: max(emotions.items(), key=lambda x: x[1])[0], the first item of
\* the greatest value; items is the dictionary as its <<name, value>> pairs
\* in insertion order
dominant_emotion(items) ==
    LET best == CHOOSE k \in 1..Len(items) :
                    /\ \A j \in 1..Len(items) : items[j][2] <= items[k][2]
                    /\ \A j \in 1..(k - 1) : items[j][2] < items[k][2]
    IN  items[best][1]

\* mutant: a name the mapping does not know is passed on as it is
MappedOrAsIs(name) ==
    IF name \in DOMAIN emotion_mapping THEN emotion_mapping[name] ELSE name

\* line 88: emotion_mapping.get(dominant_emotion, neutral)
mapped_emotion(name) == DictGet(emotion_mapping, name, "neutral")

\* lines 60-90: _map_emotions
map_emotions(items) ==
    IF items = <<>> THEN <<"neutral">>
    ELSE <<mapped_emotion(dominant_emotion(items))>>

\* mutant: the default label is the first category of the list of line 14
NeutralDefaultFirstCategory(audio, rate) ==
    [i \in 1..(audio \div rate) |-> "negative"]

\* lines 38 and 58: ['neutral'] * (len(audio) // sample_rate)
NeutralDefault(audio, rate) == [i \in 1..(audio \div rate) |-> "neutral"]

\* lines 36-58: analyze_emotions; outcome is what recognize() does when it
\* is called: it raises, or returns a dictionary
analyze_emotions(recognizer, audio, rate, outcome) ==
    IF recognizer = None THEN NeutralDefault(audio, rate)
    ELSE IF outcome.raised THEN NeutralDefault(audio, rate)
    ELSE map_emotions(outcome.items)

\* the branch of analyze_emotions and _map_emotions a call goes through:
\* line 38, line 58, line 71, or line 88 with a name the mapping knows
\* ("mapped") or does not know ("default")
Branch(recognizer, outcome) ==
    IF recognizer = None THEN "no_recognizer"
    ELSE IF outcome.raised THEN "raised"
    ELSE IF outcome.items = <<>> THEN "empty"
    ELSE IF dominant_emotion(outcome.items) \in DOMAIN emotion_mapping
         THEN "mapped"
         ELSE "default"

---------------------------------------------------------------------------
\* emotion_analysis.map_features_to_emotions
\*
\* Energy, zero-crossing rate and centroid are integers in a unit of their
\* own, roll-off and bandwidth are in Hz, flatness is in hundredths, the
\* cepstral means are integers; scores are in tenths.  With n segments,
\* x - mean = Deviation / n and std^2 = Spread / n^3, so that
\* norm = Deviation / (sqrt(Spread / n) + n * 1e-6): a comparison of norm
\* with p/q is a comparison of squares, and where the squares are equal the
\* 1e-6 of the denominator puts norm below p/q.

RECURSIVE Sum(_)
Sum(xs) == IF xs = <<>> THEN 0 ELSE xs[1] + Sum(Tail(xs))

\* lines 222-224
Column(fs, field) == [i \in 1..Len(fs) |-> fs[i][field]]

\* n * (x_i - mean), lines 226-228 and 246-248
Deviation(xs, i) == Len(xs) * xs[i] - Sum(xs)

\* n^3 * std^2, lines 230-232
Spread(xs) ==
    LET total == Sum(xs)
        dev == [j \in 1..Len(xs) |-> Len(xs) * xs[j] - total]
    IN  Sum([j \in 1..Len(xs) |-> dev[j] * dev[j]])

\* lines 246-248: norm > p/q, for p/q > 0
NormAbove(xs, i, p, q) ==
    LET dev == Deviation(xs, i)
    IN  /\ dev > 0
        /\ q * q * dev * dev * Len(xs) > p * p * Spread(xs)

\* lines 246-248: norm < p/q, for p/q > 0
NormBelow(xs, i, p, q) ==
    LET dev == Deviation(xs, i)
    IN  \/ dev <= 0
        \/ q * q * dev * dev * Len(xs) <= p * p * Spread(xs)

\* lines 246-248: abs(norm) < p/q
NormAbsBelow(xs, i, p, q) ==
    LET dev == Deviation(xs, i)
    IN  q * q * dev * dev * Len(xs) <= p * p * Spread(xs)

\* line 251: np.var(mfcc_mean) > p/q
VarianceAbove(m, p, q) ==
    q * (Len(m) * Sum([j \in 1..Len(m) |-> m[j] * m[j]]) - Sum(m) * Sum(m))
        > p * Len(m) * Len(m)

\* line 252: the sum of abs(np.diff(mfcc_mean))
AbsDiffSum(m) ==
    Sum([j \in 1..(Len(m) - 1) |->
            IF m[j + 1] >= m[j] THEN m[j + 1] - m[j] ELSE m[j] - m[j + 1]])

\* line 252: pitch_stability > p/q
PitchAbove(m, p, q) == q * AbsDiffSum(m) > p * (Len(m) - 1)

\* line 252: pitch_stability < p/q
PitchBelow(m, p, q) == q * AbsDiffSum(m) < p * (Len(m) - 1)

Hit(condition, weight) == IF condition THEN weight ELSE 0

\* lines 255-275
negative_score(fs, i) ==
      Hit(NormAbove(Column(fs, "energy"), i, 1, 1), 15)
    + Hit(NormAbove(Column(fs, "zero_crossing_rate"), i, 4, 5), 15)
    + Hit(fs[i].spectral_bandwidth > 4000, 10)
    + Hit(VarianceAbove(fs[i].mfcc_mean, 9, 10), 10)
    + Hit(PitchAbove(fs[i].mfcc_mean, 7, 10), 10)
    + Hit(fs[i].spectral_flatness > 70, 8)
    + Hit(fs[i].spectral_rolloff > 6000, 8)

\* lines 256 and 277-287
joy_score(fs, i) ==
      Hit(/\ NormAbove(Column(fs, "energy"), i, 1, 5)
          /\ NormBelow(Column(fs, "energy"), i, 4, 5), 12)
    + Hit(NormAbove(Column(fs, "spectral_centroid"), i, 3, 10), 12)
    + Hit(fs[i].spectral_rolloff > 4000, 10)
    + Hit(PitchBelow(fs[i].mfcc_mean, 3, 10), 10)
    + Hit(fs[i].spectral_flatness < 30, 10)

\* lines 257 and 289-299
neutral_score(fs, i) ==
      Hit(NormAbsBelow(Column(fs, "energy"), i, 3, 10), 12)
    + Hit(NormAbsBelow(Column(fs, "zero_crossing_rate"), i, 3, 10), 12)
    + Hit(NormAbsBelow(Column(fs, "spectral_centroid"), i, 3, 10), 12)
    + Hit(PitchBelow(fs[i].mfcc_mean, 2, 10), 10)
    + Hit(fs[i].spectral_flatness > 40, 10)

\* lines 302-306
RawScores(fs, i) ==
    [negative |-> negative_score(fs, i),
     joy |-> joy_score(fs, i),
     neutral |-> neutral_score(fs, i)]

\* mutant: the bonus goes to every label once there is a previous segment
BonusToEveryLabel(dict, previous) ==
    IF previous # None /\ previous \in DOMAIN dict
    THEN [l \in DOMAIN dict |-> dict[l] + 3]
    ELSE dict

\* lines 309-310: the bonus of the previous segment's label (None: no
\* previous segment)
WithBonus(dict, previous) ==
    IF previous # None /\ previous \in DOMAIN dict
    THEN [dict EXCEPT ![previous] = @ + 3]
    ELSE dict

\* mutant: the raw negative score is never gated
WithoutGate(dict, raw_negative) == dict

\* lines 313-314: the gate on the raw negative score
WithGate(dict, raw_negative) ==
    IF raw_negative < 50 THEN [dict EXCEPT !.negative = 0] ELSE dict

\* mutant: the gate is applied before the bonus
GateThenBonus(raw, previous) ==
    WithBonus(WithGate(raw, raw.negative), previous)

\* lines 308-314: the scores the label is chosen from
FinalScores(raw, previous) ==
    WithGate(WithBonus(raw, previous), raw.negative)

\* mutant: the last of the largest scores wins
ArgMaxLast(dict) ==
    LET order == <<"negative", "joy", "neutral">>
        best == CHOOSE k \in 1..3 :
                    /\ \A j \in 1..3 : dict[order[j]] <= dict[order[k]]
                    /\ \A j \in (k + 1)..3 : dict[order[j]] < dict[order[k]]
    IN  order[best]

\* line 316: max(scores.items(), key=lambda x: x[1])[0]; the dictionary's
\* order is negative, joy, neutral
ArgMaxFirst(dict) ==
    LET order == <<"negative", "joy", "neutral">>
        best == CHOOSE k \in 1..3 :
                    /\ \A j \in 1..3 : dict[order[j]] <= dict[order[k]]
                    /\ \A j \in 1..(k - 1) : dict[order[j]] < dict[order[k]]
    IN  order[best]

\* lines 234-317: the loop; the labels and score dictionaries of the first
\* i segments
RECURSIVE MapLoop(_, _)
MapLoop(fs, i) ==
    IF i = 0 THEN <<>>
    ELSE LET before == MapLoop(fs, i - 1)
             previous == IF i > 1 THEN before[i - 1].emotion ELSE None
             final == FinalScores(RawScores(fs, i), previous)
         IN  Append(before, [emotion |-> ArgMaxFirst(final), scores |-> final])

map_features_to_emotions(fs) ==
    LET done == MapLoop(fs, Len(fs))
    IN  [emotions |-> [i \in 1..Len(fs) |-> done[i].emotion],
         scores |-> [i \in 1..Len(fs) |-> done[i].scores]]

---------------------------------------------------------------------------
\* emotion_analysis.smooth_emotions

\* mutant: of the labels counted most often the last one counted wins
MostCommonLastTie(window) ==
    LET Count(l) == Cardinality({k \in 1..Len(window) : window[k] = l})
        NewAt(k) == \A j \in 1..(k - 1) : window[j] # window[k]
        last == CHOOSE k \in 1..Len(window) :
                    /\ NewAt(k)
                    /\ \A j \in 1..Len(window) :
                           Count(window[j]) <= Count(window[k])
                    /\ \A j \in (k + 1)..Len(window) :
                           NewAt(j) => Count(window[j]) < Count(window[k])
    IN  window[last]

\* lines 342-349: the label counted most often, the first one counted in
\* case of a tie
MostCommon(window) ==
    LET Count(l) == Cardinality({k \in 1..Len(window) : window[k] = l})
        first == CHOOSE k \in 1..Len(window) :
                     /\ \A j \in 1..Len(window) :
                            Count(window[j]) <= Count(window[k])
                     /\ \A j \in 1..(k - 1) :
                            Count(window[j]) < Count(window[k])
    IN  window[first]

\* mutant: the window starts at the index itself
WindowForwardOnly(labels, i, window_size) ==
    SubSeq(labels, i + 1, Min(Len(labels), i + (window_size \div 2) + 1))

\* lines 337-339: emotions[start:end] around the 0-based index i
Window(labels, i, window_size) ==
    LET start == Max(0, i - (window_size \div 2))
        end == Min(Len(labels), i + (window_size \div 2) + 1)
    IN  SubSeq(labels, start + 1, end)

\* mutant: the loop stops one index early
smooth_emotions_without_last(labels, window_size) ==
    IF Len(labels) <= window_size THEN labels
    ELSE [p \in 1..(Len(labels) - 1) |->
             MostCommon(Window(labels, p - 1, window_size))]

\* lines 321-352: a list of at most window_size labels is returned as it is
smooth_emotions(labels, window_size) ==
    IF Len(labels) <= window_size THEN labels
    ELSE [p \in 1..Len(labels) |->
             MostCommon(Window(labels, p - 1, window_size))]

---------------------------------------------------------------------------
\* emotion_analysis.extract_features: the segments of a signal of `length`
\* samples; a segment is the slice audio[start:end].

\* int(x / y) for y > 0: the quotient without its fraction
Truncated(x, y) == IF x >= 0 THEN x \div y ELSE 0 - ((0 - x) \div y)

\* line 147: max(1, int((len(audio) - window_size) / hop_length) + 1), with
\* window_size = sample_rate and hop_length = window_size // 2
num_segments(length, rate) ==
    Max(1, Truncated(length - rate, rate \div 2) + 1)

\* lines 150-205: the list after the iterations 0 .. i-1
RECURSIVE SegmentLoop(_, _, _)
SegmentLoop(length, rate, i) ==
    IF i = 0 THEN <<>>
    ELSE LET before == SegmentLoop(length, rate, i - 1)
             start == (i - 1) * (rate \div 2)
             end == Min(start + rate, length)
         IN  IF end - start < rate \div 2
             THEN before
             ELSE Append(before, [start |-> start, end |-> end])

\* lines 131-207: one feature vector for each of these segments
extract_features(length, rate) ==
    SegmentLoop(length, rate, num_segments(length, rate))

---------------------------------------------------------------------------
\* Inputs of the scorer.

Timelines(n) == [1..n -> EMOTION_CATEGORIES]

\* a call in three phases (opening, middle, closing), each of one mood
Phased(n) ==
    {[i \in 1..n |-> IF i <= a THEN la ELSE IF i <= b THEN lb ELSE lc] :
        <<a, b, la, lb, lc>> \in
            {t \in (0..n) \X (0..n) \X EMOTION_CATEGORIES
                   \X EMOTION_CATEGORIES \X EMOTION_CATEGORIES : t[1] <= t[2]}}

\* the operator follows the customer's mood except in at most one segment
Following(cu) ==
    {cu} \cup {[cu EXCEPT ![k] = l] :
                   <<k, l>> \in (1..Len(cu)) \X EMOTION_CATEGORIES}

ShortCalls(longest) ==
    UNION {Timelines(n) \X Timelines(n) : n \in 0..longest}

LongCalls(longest) ==
    UNION {{<<op, cu>> : op \in Following(cu)} :
              cu \in UNION {Phased(n) : n \in 0..(RecoveryMinLen + longest)}}

\* the parts of the state an operation does not use
NoStreak ==
    /\ target_emotions = {}
    /\ min_length = 2
    /\ count = None

NoClassifier ==
    /\ emotions = <<>>
    /\ features = <<>>
    /\ scores = <<>>
    /\ smoothed = None

NoAnalyzer ==
    /\ voice_recognizer = None
    /\ operator_audio = 0
    /\ customer_audio = 0
    /\ sample_rate = 1
    /\ branches = <<>>

NoAudio ==
    /\ input_audio = None
    /\ decoder = None
    /\ band = None
    /\ masks = None
    /\ returned = None

NoExtractor == segments = None

NoReport ==
    /\ audio_path = None
    /\ report = None

NoSession ==
    /\ processed_files = None
    /\ current_file = None
    /\ analysis_results = None
    /\ clock = 0
    /\ last_run = None

NoScorer ==
    /\ quality = None
    /\ key_moments = None

Init ==
    /\ pc = "ready"
    /\ \E call \in ShortCalls(MaxLen) \cup LongCalls(LongExtra) :
          /\ operator = call[1]
          /\ customer = call[2]
    /\ NoScorer
    /\ NoStreak
    /\ NoClassifier
    /\ NoAnalyzer
    /\ NoAudio
    /\ NoExtractor
    /\ NoReport
    /\ NoSession

CalculateCallQuality ==
    /\ pc = "ready"
    /\ pc' = "scored"
    /\ quality' = calculate_call_quality(operator, customer)
    /\ UNCHANGED <<operator, customer, key_moments>>
    /\ UNCHANGED <<streak_vars, classifier_vars, analyzer_vars, audio_vars>>
    /\ UNCHANGED <<extractor_vars, report_vars, session_vars>>

\* the key moments of a timeline, before or after it was scored
ExtractKeyMoments ==
    /\ pc \in {"ready", "scored"}
    /\ pc' = IF pc = "ready" THEN "moments" ELSE "reported"
    /\ key_moments' = extract_key_moments(operator, customer)
    /\ UNCHANGED <<operator, customer, quality>>
    /\ UNCHANGED <<streak_vars, classifier_vars, analyzer_vars, audio_vars>>
    /\ UNCHANGED <<extractor_vars, report_vars, session_vars>>

Next == CalculateCallQuality \/ ExtractKeyMoments

Spec == Init /\ [][Next]_vars

---------------------------------------------------------------------------
\* count_emotion_sequences on its own inputs.

LabelLists(longest) == UNION {[1..n -> EMOTION_CATEGORIES] : n \in 0..longest}

InitStreak ==
    /\ pc = "ready"
    /\ operator = <<>>
    /\ customer = <<>>
    /\ NoScorer
    /\ emotions \in LabelLists(MaxStreakLen)
    /\ target_emotions \in SUBSET EMOTION_CATEGORIES
    /\ min_length \in 1..MaxMinLength
    /\ count = None
    /\ features = <<>>
    /\ scores = <<>>
    /\ smoothed = None
    /\ NoAnalyzer
    /\ NoAudio
    /\ NoExtractor
    /\ NoReport
    /\ NoSession

CountEmotionSequences ==
    /\ pc = "ready"
    /\ pc' = "counted"
    /\ count' = count_emotion_sequences(emotions, target_emotions, min_length)
    /\ UNCHANGED <<target_emotions, min_length>>
    /\ UNCHANGED <<scorer_vars, classifier_vars, analyzer_vars, audio_vars>>
    /\ UNCHANGED <<extractor_vars, report_vars, session_vars>>

NextStreak == CountEmotionSequences

SpecStreak == InitStreak /\ [][NextStreak]_vars

---------------------------------------------------------------------------
\* The classifier, the smoothing pass and the analysis run of app.py.

\* line 199: n_mfcc
NumMfcc == 13

\* a cepstral-mean vector that moves between 0 and amp at each of its first
\* `changes` steps and then stays where it is
Zigzag(amp, changes) ==
    [i \in 1..NumMfcc |->
        IF i <= changes + 1
        THEN (IF i % 2 = 0 THEN amp ELSE 0)
        ELSE (IF changes % 2 = 1 THEN amp ELSE 0)]

\* the spectral shape of a segment: harsh, bright, dull, noisy
Timbres ==
    {[spectral_rolloff |-> 7000, spectral_bandwidth |-> 5000,
      spectral_flatness |-> 80, mfcc_mean |-> Zigzag(2, 12)],
     [spectral_rolloff |-> 5000, spectral_bandwidth |-> 3000,
      spectral_flatness |-> 20, mfcc_mean |-> Zigzag(0, 0)],
     [spectral_rolloff |-> 3000, spectral_bandwidth |-> 3000,
      spectral_flatness |-> 35, mfcc_mean |-> Zigzag(1, 6)],
     [spectral_rolloff |-> 3000, spectral_bandwidth |-> 5000,
      spectral_flatness |-> 50, mfcc_mean |-> Zigzag(1, 3)]}

Levels == {0, 1}

\* the feature vectors classified: a loudness level, a brightness level that
\* sets both the zero-crossing rate and the centroid (both grow with the
\* share of high frequencies), and a spectral shape
FeatureVectors ==
    {[energy |-> loud, zero_crossing_rate |-> bright, spectral_centroid |-> bright,
      spectral_rolloff |-> t.spectral_rolloff,
      spectral_bandwidth |-> t.spectral_bandwidth,
      spectral_flatness |-> t.spectral_flatness,
      mfcc_mean |-> t.mfcc_mean] :
        <<loud, bright, t>> \in Levels \X Levels \X Timbres}

FeatureLists(longest) == UNION {[1..n -> FeatureVectors] : n \in 0..longest}

\* the emotion names of the recognizer; the mapping does not know the last
RecognizerEmotions ==
    {"anger", "disgust", "fear", "happiness", "sadness", "surprise",
     "neutral", "enthusiasm"}

\* the dictionaries recognize() may return, as lists of <<name, value>>
Dictionaries ==
    {d \in UNION {[1..n -> RecognizerEmotions \X (1..2)] : n \in 0..MaxEmotions} :
        \A j, k \in 1..Len(d) : j # k => d[j][1] # d[k][1]}

\* what recognize() may do: raise, or return a dictionary
Outcomes ==
    {[raised |-> TRUE, items |-> <<>>]}
        \cup {[raised |-> FALSE, items |-> d] : d \in Dictionaries}

\* recognize() is not called
NotCalled == [raised |-> FALSE, items |-> <<>>]

\* a list of feature vectors to classify
InitFeatures ==
    /\ pc = "features"
    /\ features \in FeatureLists(MaxSegments)
    /\ emotions = <<>>
    /\ scores = <<>>
    /\ smoothed = None
    /\ operator = <<>>
    /\ customer = <<>>
    /\ NoAnalyzer

\* a list of labels to smooth
InitLabels ==
    /\ pc = "labels"
    /\ emotions \in LabelLists(MaxStreakLen)
    /\ features = <<>>
    /\ scores = <<>>
    /\ smoothed = None
    /\ operator = <<>>
    /\ customer = <<>>
    /\ NoAnalyzer

\* the sample rates of the signals cut into segments
SegmentRates == {2, 4, 6}

\* a signal to cut into segments
InitCut ==
    /\ pc = "signal"
    /\ operator_audio \in 0..MaxSignal
    /\ customer_audio = operator_audio
    /\ sample_rate \in SegmentRates
    /\ voice_recognizer = None
    /\ branches = <<>>
    /\ operator = <<>>
    /\ customer = <<>>
    /\ NoClassifier

\* app.py line 58: the two signals of a recording, of equal length
InitRun ==
    /\ pc = "separated"
    /\ operator_audio \in 0..MaxSamples
    /\ customer_audio = operator_audio
    /\ sample_rate \in 1..MaxRate
    /\ voice_recognizer = None
    /\ branches = <<>>
    /\ operator = None
    /\ customer = None
    /\ NoClassifier

InitEmotion ==
    /\ InitFeatures \/ InitLabels \/ InitRun \/ InitCut
    /\ NoScorer
    /\ NoStreak
    /\ NoAudio
    /\ NoExtractor
    /\ NoReport
    /\ NoSession

ExtractFeatures ==
    /\ pc = "signal"
    /\ pc' = "cut"
    /\ segments' = extract_features(operator_audio, sample_rate)
    /\ UNCHANGED <<scorer_vars, streak_vars, classifier_vars, analyzer_vars>>
    /\ UNCHANGED <<audio_vars, report_vars, session_vars>>

MapFeaturesToEmotions ==
    /\ pc = "features"
    /\ pc' = "mapped"
    /\ LET result == map_features_to_emotions(features)
       IN  /\ emotions' = result.emotions
           /\ scores' = result.scores
    /\ UNCHANGED <<features, smoothed>>
    /\ UNCHANGED <<scorer_vars, streak_vars, analyzer_vars, audio_vars>>
    /\ UNCHANGED <<extractor_vars, report_vars, session_vars>>

SmoothEmotions ==
    /\ pc \in {"mapped", "labels"}
    /\ pc' = "smoothed"
    /\ smoothed' = smooth_emotions(emotions, 3)
    /\ UNCHANGED <<emotions, features, scores>>
    /\ UNCHANGED <<scorer_vars, streak_vars, analyzer_vars, audio_vars>>
    /\ UNCHANGED <<extractor_vars, report_vars, session_vars>>

\* app.py line 61 and EmotionAnalyzer.__init__: the model loads or does not
NewEmotionAnalyzer ==
    /\ pc = "separated"
    /\ pc' = "analyzer"
    /\ voice_recognizer' \in {None, "VoiceRecognizer"}
    /\ UNCHANGED <<operator_audio, customer_audio, sample_rate, branches>>
    /\ UNCHANGED <<scorer_vars, streak_vars, classifier_vars, audio_vars>>
    /\ UNCHANGED <<extractor_vars, report_vars, session_vars>>

\* app.py line 64
AnalyzeOperator ==
    /\ pc = "analyzer"
    /\ pc' = "operator_analyzed"
    /\ \E outcome \in IF voice_recognizer = None THEN {NotCalled} ELSE Outcomes :
          /\ branches' = Append(branches, Branch(voice_recognizer, outcome))
          /\ operator' = analyze_emotions(voice_recognizer, operator_audio,
                                          sample_rate, outcome)
    /\ UNCHANGED <<customer, quality, key_moments>>
    /\ UNCHANGED <<voice_recognizer, operator_audio, customer_audio, sample_rate>>
    /\ UNCHANGED <<streak_vars, classifier_vars, audio_vars>>
    /\ UNCHANGED <<extractor_vars, report_vars, session_vars>>

\* app.py line 65
AnalyzeCustomer ==
    /\ pc = "operator_analyzed"
    /\ pc' = "analyzed"
    /\ \E outcome \in IF voice_recognizer = None THEN {NotCalled} ELSE Outcomes :
          /\ branches' = Append(branches, Branch(voice_recognizer, outcome))
          /\ customer' = analyze_emotions(voice_recognizer, customer_audio,
                                          sample_rate, outcome)
    /\ UNCHANGED <<operator, quality, key_moments>>
    /\ UNCHANGED <<voice_recognizer, operator_audio, customer_audio, sample_rate>>
    /\ UNCHANGED <<streak_vars, classifier_vars, audio_vars>>
    /\ UNCHANGED <<extractor_vars, report_vars, session_vars>>

NextEmotion ==
    \/ ExtractFeatures
    \/ MapFeaturesToEmotions
    \/ SmoothEmotions
    \/ NewEmotionAnalyzer
    \/ AnalyzeOperator
    \/ AnalyzeCustomer

SpecEmotion == InitEmotion /\ [][NextEmotion]_vars

---------------------------------------------------------------------------
\* audio_processing
\*
\* A signal is a list of integer samples with a scale: the value of a sample
\* is samples[i] / scale.  An array of several channels is a list of sample
\* lists with one scale.

Signal(samples, scale) == [raised |-> FALSE, samples |-> samples, scale |-> scale]

\* an exception leaves the function
Raised == [raised |-> TRUE, samples |-> <<>>, scale |-> 1]

Abs(x) == IF x < 0 THEN 0 - x ELSE x

\* np.max(np.abs(audio)) * scale, for a signal with a sample
Peak(samples) ==
    CHOOSE m \in {Abs(samples[k]) : k \in 1..Len(samples)} :
        \A k \in 1..Len(samples) : Abs(samples[k]) <= m

\* mutant: the largest sample instead of the largest magnitude
PeakSigned(samples) ==
    Max(0, CHOOSE m \in {samples[k] : k \in 1..Len(samples)} :
               \A k \in 1..Len(samples) : samples[k] <= m)

\* mutant: the divisor is the largest sample, np.max(audio)
normalize_by_largest_sample(sig) ==
    IF sig.samples = <<>> THEN Raised
    ELSE IF PeakSigned(sig.samples) > 0
         THEN Signal(sig.samples, PeakSigned(sig.samples))
         ELSE sig

\* lines 180-192: normalize_audio; np.max of an array without elements
\* raises ValueError
normalize_audio(sig) ==
    IF sig.samples = <<>> THEN Raised
    ELSE IF Peak(sig.samples) > 0
         THEN Signal(sig.samples, Peak(sig.samples))
         ELSE sig

---------------------------------------------------------------------------
\* audio_processing.bandpass_filter
\*
\* With the sample rate S, frequencies are kept in fortieths of a Hz and
\* normalized frequencies in units of 1 / (40000 * S), so that S / 8, S / 10,
\* 0.001, 0.249, 0.005 and the midpoint are integers.

\* lines 146-150: lowcut and highcut after the clamps, in fortieths of a Hz
ClampedHz(lowcut, highcut, S) ==
    LET max_allowed_freq == 5 * S
        low_hz == Max(800, Min(40 * lowcut, 4 * S))
        high_hz == Max(low_hz + 1200, Min(40 * highcut, max_allowed_freq))
    IN  [lowcut |-> low_hz, highcut |-> high_hz]

\* lines 153-158: the normalized frequencies after the second clamps
ClampedNorm(hz, S) ==
    LET low == Max(40 * S, Min(2000 * hz.lowcut, 9960 * S))
        high == Max(low + 40 * S, Min(2000 * hz.highcut, 9960 * S))
    IN  [low |-> low, high |-> high]

\* lines 161-164: a band narrower than 0.01 is widened around its middle
Widened(norm, S) ==
    IF norm.high - norm.low < 400 * S
    THEN LET mid == (norm.low + norm.high) \div 2
         IN  [low |-> mid - 200 * S, high |-> mid + 200 * S]
    ELSE norm

\* line 167: scipy's butter rejects critical frequencies outside 0 < Wn < 1
\* and a band whose edges are not in order
ButterAccepts(norm, S) ==
    /\ norm.low > 0
    /\ norm.high < 40000 * S
    /\ norm.low < norm.high

\* lines 128-178: bandpass_filter; the cutoffs handed to butter, whether
\* butter accepted them, and whether the filtered signal or, after an
\* exception (butter's, or np.max on a signal without samples), the data is
\* returned
bandpass_filter(data, lowcut, highcut, S) ==
    LET norm == Widened(ClampedNorm(ClampedHz(lowcut, highcut, S), S), S)
        designed == ButterAccepts(norm, S)
    IN  [low |-> norm.low,
         high |-> norm.high,
         designed |-> designed,
         result |-> IF designed /\ data.samples # <<>>
                    THEN "filtered" ELSE "data",
         raised |-> FALSE]

---------------------------------------------------------------------------
\* audio_processing.separate_speakers_from_mono
\*
\* An array is [channels, scale]: one list of samples for a 1-D array, one
\* list per row for a 2-D array.  Mask values are kept in units of
\* 1 / MaskUnit, chosen so that every value np.linspace produces is an
\* integer.

Array(channels, scale) == [channels |-> channels, scale |-> scale]

\* line 55: audio.ndim > 1
TwoDimensional(arr) == Len(arr.channels) > 1

\* line 56: np.mean(audio, axis=0)
MeanOverChannels(arr) ==
    Signal([p \in 1..Len(arr.channels[1]) |->
               Sum([c \in 1..Len(arr.channels) |-> arr.channels[c][p]])],
           arr.scale * Len(arr.channels))

\* lines 62, 63 and 94: int(sample_rate * 0.025), int(sample_rate * 0.010),
\* int(sample_rate * 0.005)
frame_length(rate) == (rate * 25) \div 1000
hop_length(rate) == (rate * 10) \div 1000
transition_length(rate) == (rate * 5) \div 1000

\* line 66: librosa.util.frame raises for a signal shorter than a frame and
\* for a hop below 1
FrameRaises(samples, rate) ==
    \/ Len(samples) < frame_length(rate)
    \/ hop_length(rate) < 1

\* line 66: the number of frames
NumFrames(samples, rate) ==
    1 + (Len(samples) - frame_length(rate)) \div hop_length(rate)

\* line 67: the energy of frame i (0-based), times scale^2
FrameEnergy(samples, rate, i) ==
    Sum([k \in 1..frame_length(rate) |->
            samples[i * hop_length(rate) + k] * samples[i * hop_length(rate) + k]])

\* lines 70, 77 and 84: for every frame i (0-based), energy[i] > threshold
\* after the min-max normalization; with all energies equal the division
\* is 0/0, every energy is NaN and no comparison holds
HighEnergy(samples, rate) ==
    LET F == NumFrames(samples, rate)
        E == [j \in 1..F |-> FrameEnergy(samples, rate, j - 1)]
        lowest == CHOOSE m \in {E[j] : j \in 1..F} : \A j \in 1..F : m <= E[j]
        highest == CHOOSE m \in {E[j] : j \in 1..F} : \A j \in 1..F : E[j] <= m
        total == Sum([j \in 1..F |-> E[j] - lowest])
    IN  [i \in 0..(F - 1) |->
            /\ highest > lowest
            /\ 5 * F * (E[i + 1] - lowest) > 6 * total]

Factorial(n) == IF n <= 1 THEN 1 ELSE IF n = 2 THEN 2 ELSE IF n = 3 THEN 6 ELSE 24

\* the denominator of the mask values is 10 times a number that every
\* np.linspace step count below transition_length divides
MaskUnit(rate) == 10 * Factorial(transition_length(rate) - 1)

\* lines 86-87 and 90-91: 0.8 and 0.2
Strong(rate) == 8 * (MaskUnit(rate) \div 10)
Weak(rate) == 2 * (MaskUnit(rate) \div 10)

\* lines 73-91: the masks after the frames 0 .. i-1 have been painted;
\* loud tells the frames above the threshold
RECURSIVE PaintLoop(_, _, _, _)
PaintLoop(samples, rate, loud, i) ==
    IF i = 0
    THEN [operator_mask |-> [p \in 1..Len(samples) |-> 0],
          customer_mask |-> [p \in 1..Len(samples) |-> 0]]
    ELSE LET before == PaintLoop(samples, rate, loud, i - 1)
             start == (i - 1) * hop_length(rate)
             end == Min(start + frame_length(rate), Len(samples))
             high == loud[i - 1]
             Paint(mask, value) ==
                 [p \in 1..Len(samples) |->
                     IF start < p /\ p <= end THEN value ELSE mask[p]]
         IN  [operator_mask |->
                  Paint(before.operator_mask,
                        IF high THEN Strong(rate) ELSE Weak(rate)),
              customer_mask |->
                  Paint(before.customer_mask,
                        IF high THEN Weak(rate) ELSE Strong(rate))]

\* np.linspace(a, b, num)[k]
Linspace(a, b, num, k) ==
    IF num = 1 THEN a ELSE a + (k * (b - a)) \div (num - 1)

\* lines 94-111: the painted masks after the cross-fades at the starts of
\* the frames 1 .. i
RECURSIVE FadeLoop(_, _, _, _)
FadeLoop(painted, samples, rate, i) ==
    IF i = 0 THEN painted
    ELSE LET before == FadeLoop(painted, samples, rate, i - 1)
             start == i * hop_length(rate)
             end == Min(start + transition_length(rate), Len(samples))
             Fade(mask) ==
                 [p \in 1..Len(samples) |->
                     IF start < p /\ p <= end
                     THEN Linspace(mask[start], mask[start + 1],
                                   end - start, p - start - 1)
                     ELSE mask[p]]
         IN  [operator_mask |-> Fade(before.operator_mask),
              customer_mask |-> Fade(before.customer_mask)]

\* lines 73-111: both masks as they are when they are applied
BuildMasks(samples, rate) ==
    LET F == NumFrames(samples, rate)
        painted == PaintLoop(samples, rate, HighEnergy(samples, rate), F)
    IN  FadeLoop(painted, samples, rate, F - 1)

\* lines 114-115: audio * mask
Masked(sig, mask, rate) ==
    Signal([p \in 1..Len(sig.samples) |-> sig.samples[p] * mask[p]],
           sig.scale * MaskUnit(rate))

\* lines 123-126: the except branch returns the variable audio as it is
\* bound when the exception is raised
FailOpen(bound, rate) ==
    [out |-> [raised |-> FALSE, operator_audio |-> bound,
              customer_audio |-> bound, sample_rate |-> rate,
              path |-> "mono_failed"],
     masks |-> None]

\* lines 41-126: separate_speakers_from_mono; the returned tuple, and the
\* masks of lines 114-115
separate_speakers_from_mono(arr, rate) ==
    LET mono == IF TwoDimensional(arr) THEN MeanOverChannels(arr)
                ELSE Signal(arr.channels[1], arr.scale)
        normalized == normalize_audio(mono)
    IN  IF normalized.raised THEN FailOpen(mono, rate)
        ELSE IF FrameRaises(normalized.samples, rate)
        THEN FailOpen(normalized, rate)
        ELSE LET built == BuildMasks(normalized.samples, rate)
             IN  [out |->
                      [raised |-> FALSE,
                       operator_audio |->
                           normalize_audio(Masked(normalized,
                                                  built.operator_mask, rate)),
                       customer_audio |->
                           normalize_audio(Masked(normalized,
                                                  built.customer_mask, rate)),
                       sample_rate |-> rate,
                       path |-> "mono"],
                  masks |-> [operator_mask |-> built.operator_mask,
                             customer_mask |-> built.customer_mask,
                             unit |-> MaskUnit(rate)]]

---------------------------------------------------------------------------
\* audio_processing.separate_channels and process_with_pydub

\* lines 217, 218 and 221: 16-bit samples are divided by 32768.0
PcmScale == 32768

\* get_array_of_samples: the samples of all channels, frame by frame
Interleave(channels) ==
    LET c == Len(channels)
    IN  [k \in 1..(c * Len(channels[1])) |->
            channels[((k - 1) % c) + 1][((k - 1) \div c) + 1]]

\* lines 216-218: samples.reshape((-1, 2))[:, j]
ReshapedColumn(samples, j) ==
    [i \in 1..(Len(samples) \div 2) |-> samples[2 * (i - 1) + j + 1]]

\* the two channels are returned as they are, without the mono heuristic
Verbatim(operator_samples, customer_samples, rate) ==
    [out |-> [raised |-> FALSE,
              operator_audio |-> Signal(operator_samples, PcmScale),
              customer_audio |-> Signal(customer_samples, PcmScale),
              sample_rate |-> rate,
              path |-> "stereo"],
     masks |-> None]

\* mutant: the columns of the reshaped array are taken in the other order
pydub_columns_swapped(channels, rate) ==
    LET samples == Interleave(channels)
    IN  IF Len(channels) = 2
        THEN Verbatim(ReshapedColumn(samples, 1), ReshapedColumn(samples, 0),
                      rate)
        ELSE separate_speakers_from_mono(Array(<<samples>>, PcmScale), rate)

\* lines 194-224: process_with_pydub
process_with_pydub(channels, rate) ==
    LET samples == Interleave(channels)
    IN  IF Len(channels) = 2
        THEN Verbatim(ReshapedColumn(samples, 0), ReshapedColumn(samples, 1),
                      rate)
        ELSE separate_speakers_from_mono(Array(<<samples>>, PcmScale), rate)

\* lines 8-39: separate_channels; backend is "librosa" when librosa.load
\* decodes the file, "pydub" when it raises for an unknown format or a
\* missing backend and pydub decodes the file, "undecodable" when pydub
\* raises as well (line 37 is inside no try block), "unreadable" when
\* librosa.load raises for another reason (line 39)
separate_channels(channels, rate, backend) ==
    IF backend = "librosa"
    THEN IF Len(channels) > 1 /\ Len(channels) = 2
         THEN Verbatim(channels[1], channels[2], rate)
         ELSE separate_speakers_from_mono(Array(channels, PcmScale), rate)
    ELSE IF backend = "pydub"
    THEN process_with_pydub(channels, rate)
    ELSE [out |-> [raised |-> TRUE, operator_audio |-> Raised,
                   customer_audio |-> Raised, sample_rate |-> rate,
                   path |-> "raised"],
          masks |-> None]

---------------------------------------------------------------------------
\* audio_processing.get_audio_quality_report.  The file behind a path is
\* described by what the calls made on it do: whether os.path.exists finds
\* it, its extension, what librosa.load does, which call of the analysis
\* raises, and the levels librosa measures (rms in thousandths, the standard
\* deviation of the spectral centroid in Hz).

\* lines 251-257: analysis_results as initialised
NoFindings ==
    [has_speech |-> FALSE, is_too_quiet |-> FALSE, is_unclear |-> FALSE,
     original_rms |-> 0, enhanced_rms |-> 0]

\* lines 259-298: analyze_and_enhance_audio returns the dictionary as far as
\* it was filled when a call raises
analyze_and_enhance_audio(file) ==
    LET measured == [NoFindings EXCEPT !.original_rms = file.original_rms,
                                       !.is_too_quiet = file.original_rms < 10]
        enhanced == [measured EXCEPT !.enhanced_rms = file.enhanced_rms,
                                     !.has_speech = file.enhanced_rms > 20]
        judged == [enhanced EXCEPT !.is_unclear = file.centroid_std < 500]
    IN  CASE file.fails_at = "rms" -> NoFindings
          [] file.fails_at = "normalize_audio" -> measured
          [] file.fails_at = "spectral_centroid" -> enhanced
          [] OTHER -> judged

\* lines 319-320: the extensions accepted
valid_extensions == {".wav", ".mp3", ".ogg", ".flac", ".m4a"}

\* lines 333-342
Recommendations(findings) ==
    (IF findings.is_too_quiet THEN <<"too quiet">> ELSE <<>>)
    \o (IF findings.is_unclear THEN <<"unclear">> ELSE <<>>)
    \o (IF ~findings.has_speech THEN <<"no speech">> ELSE <<>>)

\* mutant: the findings are returned as they are
WithoutRecommendations(findings) == findings

\* line 344: analysis_results['recommendations'] = recommendations
WithRecommendations(findings) ==
    [k \in DOMAIN findings \cup {"recommendations"} |->
        IF k = "recommendations" THEN Recommendations(findings)
        ELSE findings[k]]

\* lines 312-316 and 348-352
NotFound ==
    [error |-> "not found", recommendations |-> <<"check the path">>]

\* lines 300-357: get_audio_quality_report
get_audio_quality_report(file) ==
    IF ~file.exists THEN NotFound
    ELSE IF file.extension \notin valid_extensions
    THEN [error |-> "unsupported format",
          recommendations |-> <<"supported formats">>]
    ELSE IF file.load = "FileNotFoundError" THEN NotFound
    ELSE IF file.load = "Exception"
    THEN [error |-> "exception",
          recommendations |-> <<"check format and access">>]
    ELSE WithRecommendations(analyze_and_enhance_audio(file))

---------------------------------------------------------------------------
\* The audio operations: inputs, initial states and actions.

Amplitudes == {0 - 2, 0, 1}

AudioRates == {100} \cup {200 * k : k \in 1..MaxRateSteps}

\* a signal of blocks of one hop each, every block at one amplitude, and a
\* tail of samples of amplitude 1
BlockSignal(amps, hop, tail) ==
    [p \in 1..(Len(amps) * hop + tail) |->
        IF p <= Len(amps) * hop THEN amps[((p - 1) \div hop) + 1] ELSE 1]

BlockSignals(rate) ==
    {BlockSignal(amps, hop_length(rate), tail) :
        <<amps, tail>> \in
            (UNION {[1..b -> Amplitudes] : b \in 0..MaxBlocks})
                \X (0..(hop_length(rate) - 1))}

Reverse(x) == [p \in 1..Len(x) |-> x[Len(x) + 1 - p]]

\* recordings of one, two and three channels
Recordings(rate) ==
    UNION {{<<x>>, <<x, Reverse(x)>>, <<x, Reverse(x), x>>} :
              x \in BlockSignals(rate)}

\* the files get_audio_quality_report is asked about
AudioFiles ==
    [exists : BOOLEAN,
     extension : {".wav", ".mp3", ".txt"},
     load : {"loaded", "FileNotFoundError", "Exception"},
     fails_at : {"nothing", "rms", "normalize_audio", "spectral_centroid"},
     original_rms : {5, 50},
     enhanced_rms : {10, 30},
     centroid_std : {100, 900}]

Backends == {"librosa", "pydub", "undecodable", "unreadable"}

BandRates == {100, 8000, 16000, 22050, 44100, 48000}

Cutoffs == {0, 20, 85, 100, 255, 300, 3400, 100000}

InitRecording ==
    /\ pc = "recording"
    /\ sample_rate \in AudioRates
    /\ input_audio \in Recordings(sample_rate)
    /\ decoder \in Backends
    /\ band = None
    /\ masks = None
    /\ returned = None
    /\ audio_path = None

InitSignal ==
    /\ pc = "signal"
    /\ sample_rate = 100
    /\ \E x \in BlockSignals(100), scale \in {1, PcmScale} :
           input_audio = Signal(x, scale)
    /\ decoder = None
    /\ band = None
    /\ masks = None
    /\ returned = None
    /\ audio_path = None

InitBand ==
    /\ pc = "band"
    /\ sample_rate \in BandRates
    /\ \E lowcut \in Cutoffs, highcut \in Cutoffs :
           /\ lowcut < highcut
           /\ band = [lowcut |-> lowcut, highcut |-> highcut]
    /\ input_audio \in {Signal(<<>>, 1), Signal(<<0, 1, 0 - 2>>, PcmScale)}
    /\ decoder = None
    /\ masks = None
    /\ returned = None
    /\ audio_path = None

\* a path handed to get_audio_quality_report
InitPath ==
    /\ pc = "path"
    /\ audio_path \in AudioFiles
    /\ sample_rate = 100
    /\ NoAudio

InitAudio ==
    /\ InitRecording \/ InitSignal \/ InitBand \/ InitPath
    /\ voice_recognizer = None
    /\ operator_audio = 0
    /\ customer_audio = 0
    /\ branches = <<>>
    /\ operator = <<>>
    /\ customer = <<>>
    /\ NoScorer
    /\ NoStreak
    /\ NoClassifier
    /\ NoExtractor
    /\ report = None
    /\ NoSession

\* app.py line 58
SeparateChannels ==
    /\ pc = "recording"
    /\ pc' = "separated"
    /\ LET result == separate_channels(input_audio, sample_rate, decoder)
       IN  /\ returned' = result.out
           /\ masks' = result.masks
    /\ UNCHANGED <<input_audio, decoder, band>>
    /\ UNCHANGED <<scorer_vars, streak_vars, classifier_vars, analyzer_vars>>
    /\ UNCHANGED <<extractor_vars, report_vars, session_vars>>

NormalizeAudio ==
    /\ pc = "signal"
    /\ pc' = "normalized"
    /\ returned' = normalize_audio(input_audio)
    /\ UNCHANGED <<input_audio, decoder, band, masks>>
    /\ UNCHANGED <<scorer_vars, streak_vars, classifier_vars, analyzer_vars>>
    /\ UNCHANGED <<extractor_vars, report_vars, session_vars>>

\* normalize_audio applied to its own result
NormalizeAgain ==
    /\ pc = "normalized"
    /\ ~returned.raised
    /\ pc' = "renormalized"
    /\ input_audio' = returned
    /\ returned' = normalize_audio(returned)
    /\ UNCHANGED <<decoder, band, masks>>
    /\ UNCHANGED <<scorer_vars, streak_vars, classifier_vars, analyzer_vars>>
    /\ UNCHANGED <<extractor_vars, report_vars, session_vars>>

BandpassFilter ==
    /\ pc = "band"
    /\ pc' = "filtered"
    /\ returned' = bandpass_filter(input_audio, band.lowcut, band.highcut,
                                   sample_rate)
    /\ UNCHANGED <<input_audio, decoder, band, masks>>
    /\ UNCHANGED <<scorer_vars, streak_vars, classifier_vars, analyzer_vars>>
    /\ UNCHANGED <<extractor_vars, report_vars, session_vars>>

GetAudioQualityReport ==
    /\ pc = "path"
    /\ pc' = "quality_report"
    /\ report' = get_audio_quality_report(audio_path)
    /\ UNCHANGED <<audio_path, audio_vars>>
    /\ UNCHANGED <<scorer_vars, streak_vars, classifier_vars, analyzer_vars>>
    /\ UNCHANGED <<extractor_vars, session_vars>>

NextAudio ==
    \/ GetAudioQualityReport
    \/ SeparateChannels
    \/ NormalizeAudio
    \/ NormalizeAgain
    \/ BandpassFilter

SpecAudio == InitAudio /\ [][NextAudio]_vars

---------------------------------------------------------------------------
\* app.py: the session state of the dashboard.  A session is the record of
\* processed_files, current_file and analysis_results; a dictionary is a
\* function on its keys.

EmptyDict == [k \in {} |-> None]

\* dict[key] = value
Assigned(dict, key, value) ==
    [k \in DOMAIN dict \cup {key} |-> IF k = key THEN value ELSE dict[k]]

\* lines 22-27: the state of a new session
NewSession ==
    [processed_files |-> <<>>, current_file |-> None,
     analysis_results |-> EmptyDict]

\* line 106: datetime.now().strftime("%Y%m%d_%H%M%S") in the seconds of the
\* session
Stamps ==
    <<"20240101_120000", "20240101_120001", "20240101_120002",
      "20240101_120003", "20240101_120004", "20240101_120005">>

strftime(t) == Stamps[t + 1]

\* mutant: the id is appended without looking for it
process_recording_always_appends(session, filename, file_id, raises) ==
    IF raises THEN session
    ELSE [processed_files |-> Append(session.processed_files, file_id),
          current_file |-> file_id,
          analysis_results |->
              Assigned(session.analysis_results, file_id,
                       [id |-> file_id, filename |-> filename])]

\* lines 49-131: one click on the process button; a call of lines 58-116
\* that raises is caught at line 126, before the session is written to
\* (lines 118-123)
process_recording(session, filename, file_id, raises) ==
    IF raises THEN session
    ELSE [processed_files |->
              IF \E k \in 1..Len(session.processed_files) :
                     session.processed_files[k] = file_id
              THEN session.processed_files
              ELSE Append(session.processed_files, file_id),
          current_file |-> file_id,
          analysis_results |->
              Assigned(session.analysis_results, file_id,
                       [id |-> file_id, filename |-> filename])]

\* lines 136-140: one click on the button of a processed recording
select_recording(session, file_id) ==
    [session EXCEPT !.current_file = file_id]

\* the session state as one record
SessionState ==
    [processed_files |-> processed_files, current_file |-> current_file,
     analysis_results |-> analysis_results]

\* the names of the files uploaded
Uploads == {"a.wav", "b.mp3"}

InitSession ==
    /\ pc = "session"
    /\ processed_files = NewSession.processed_files
    /\ current_file = NewSession.current_file
    /\ analysis_results = NewSession.analysis_results
    /\ clock = 0
    /\ last_run = [action |-> "start", raised |-> FALSE, before |-> NewSession]
    /\ operator = <<>>
    /\ customer = <<>>
    /\ NoScorer
    /\ NoStreak
    /\ NoClassifier
    /\ NoAnalyzer
    /\ NoAudio
    /\ NoExtractor
    /\ NoReport

\* lines 49-131; the clock moves on by a second or stays in the same one
ProcessRecording ==
    /\ pc = "session"
    /\ \E filename \in Uploads, elapsed \in 0..1, raises \in BOOLEAN :
          /\ clock + elapsed <= MaxClock
          /\ clock' = clock + elapsed
          /\ LET after == process_recording(SessionState, filename,
                                            strftime(clock + elapsed), raises)
             IN  /\ processed_files' = after.processed_files
                 /\ current_file' = after.current_file
                 /\ analysis_results' = after.analysis_results
          /\ last_run' = [action |-> "process", raised |-> raises,
                          before |-> SessionState]
    /\ UNCHANGED <<pc, scorer_vars, streak_vars, classifier_vars>>
    /\ UNCHANGED <<analyzer_vars, audio_vars, extractor_vars, report_vars>>

\* lines 134-140
SelectRecording ==
    /\ pc = "session"
    /\ \E k \in 1..Len(processed_files) :
          LET after == select_recording(SessionState, processed_files[k])
          IN  /\ processed_files' = after.processed_files
              /\ current_file' = after.current_file
              /\ analysis_results' = after.analysis_results
    /\ last_run' = [action |-> "select", raised |-> FALSE,
                    before |-> SessionState]
    /\ UNCHANGED <<pc, clock, scorer_vars, streak_vars, classifier_vars>>
    /\ UNCHANGED <<analyzer_vars, audio_vars, extractor_vars, report_vars>>

NextSession == ProcessRecording \/ SelectRecording

SpecSession == InitSession /\ [][NextSession]_vars

---------------------------------------------------------------------------
\* What the claims speak of, defined without the code's loops.

Segments == Len(customer)

\* how often x occurs in the list s
Occurrences(s, x) == Cardinality({k \in 1..Len(s) : s[k] = x})

\* the timestamp of the segment with (0-based) index i
TimestampOf(i) == Times(Segments)[i + 1]

\* a maximal run of labels in T starts at position p (1-based) of s
RunStartsAt(s, T, p) == s[p] \in T /\ (p = 1 \/ s[p - 1] \notin T)

\* the run that starts at p has at least m labels
RunAtLeast(s, T, p, m) ==
    \A q \in p .. (p + m - 1) : q <= Len(s) /\ s[q] \in T

MaximalRuns(s, T, m) ==
    Cardinality({p \in 1..Len(s) : RunStartsAt(s, T, p) /\ RunAtLeast(s, T, p, m)})

\* the score the formula of the specification gives, before clamping and
\* before any recovery bonus, in units of 1/Unit(n)
FormulaScore ==
    LET N == Max(Segments, 1)
        opNegStreaks == MaximalRuns(operator, {"negative"}, 2)
        custNegStreaks == MaximalRuns(customer, {"negative"}, 2)
        opJoyStreaks == MaximalRuns(operator, {"joy"}, 2)
        custJoyStreaks == MaximalRuns(customer, {"joy"}, 2)
        positiveMatches ==
            Cardinality({p \in 1..Segments :
                operator[p] = customer[p] /\ operator[p] \in {"neutral", "joy"}})
        mirrorCount ==
            Cardinality({p \in 2..Segments :
                customer[p - 1] = "negative" /\ operator[p] = "negative"})
    IN  50 * N - Min(20 * N, 3 * N * opNegStreaks)
               - Min(10 * N, N * custNegStreaks)
               + Min(10 * N, 2 * N * opJoyStreaks)
               + Min(20 * N, 4 * N * custJoyStreaks)
               + Min(20 * N, 30 * positiveMatches)
               - Min(10 * N, 3 * N * mirrorCount)

Clamped(x) ==
    IF x < 0 THEN 0 ELSE IF x > 100 * Max(Segments, 1) THEN 100 * Max(Segments, 1) ELSE x

\* the thirds the recovery rule is stated on: floor(n/3) segments at each end
Third == Segments \div 3

FirstThirdNegative ==
    Cardinality({p \in 1..Third : customer[p] = "negative"})

LastThirdPositive ==
    Cardinality({p \in (Segments - Third + 1)..Segments :
        customer[p] \in {"joy", "neutral"}})

StatedRecovery ==
    /\ Segments > 10
    /\ 10 * FirstThirdNegative > 3 * Third
    /\ 10 * LastThirdPositive > 7 * Third

---------------------------------------------------------------------------
\* C1: for label sequences of equal length >= 1, the score that
\* calculate_call_quality returns lies in [0, 10].
C1_ScoreInRange ==
    (pc = "scored" /\ Segments >= 1) =>
        /\ 0 <= quality.score
        /\ quality.score <= 10 * Unit(Segments)

\* a call whose score before clamping is above 10 and is returned as 10
C1_Witness ==
    /\ pc = "scored"
    /\ Segments >= 1
    /\ quality.unclamped > 10 * Unit(Segments)
    /\ quality.score = 10 * Unit(Segments)

\* C2: count_emotion_sequences returns the number of maximal runs of target
\* labels of length >= min_length, a run at the end included; the two
\* examples of the specification give 1 and 0.
C2_CountsMaximalRuns ==
    pc = "counted" =>
        /\ count = MaximalRuns(emotions, target_emotions, min_length)
        /\ (/\ emotions = <<"negative", "negative", "neutral">>
            /\ target_emotions = {"negative"}
            /\ min_length = 2) => count = 1
        /\ (/\ emotions = <<"negative", "neutral", "negative">>
            /\ target_emotions = {"negative"}
            /\ min_length = 2) => count = 0

\* two runs are counted and the second one reaches the end of the list
C2_Witness ==
    /\ pc = "counted"
    /\ min_length = 2
    /\ target_emotions = {"negative"}
    /\ emotions = <<"negative", "negative", "joy", "negative", "negative">>
    /\ count = 2

\* C3: for timelines of at most 10 segments the returned score is the
\* clamped formula 5.0 - min(2, 0.3 opNeg) - min(1, 0.1 custNeg)
\* + min(1, 0.2 opJoy) + min(2, 0.4 custJoy) + min(2, 3 matchRate)
\* - min(1, 0.3 mirror); the rate of an empty timeline counts as 0.
C3_ScoreFormula ==
    (pc = "scored" /\ Segments <= 10) =>
        quality.score = Clamped(FormulaScore)

\* every term of the formula is at work: streaks of both kinds on both
\* sides, a positive match and a mirrored negative
C3_Witness ==
    /\ pc = "scored"
    /\ Segments <= 10
    /\ MaximalRuns(customer, {"negative"}, 2) >= 1
    /\ MaximalRuns(operator, {"negative"}, 2) >= 1
    /\ MaximalRuns(customer, {"joy"}, 2) >= 1
    /\ MaximalRuns(operator, {"joy"}, 2) >= 1
    /\ \E p \in 2..Segments :
          customer[p - 1] = "negative" /\ operator[p] = "negative"
    /\ \E p \in 1..Segments :
          operator[p] = customer[p] /\ operator[p] = "neutral"
    /\ \E p \in 1..Segments :
          operator[p] = customer[p] /\ operator[p] = "negative"
    /\ quality.score = Clamped(FormulaScore)

\* C4: the recovery bonus of 2.0 is added before clamping exactly when the
\* timeline has more than 10 segments, more than 0.3 of the customer labels
\* of the first floor(n/3) segments are negative and more than 0.7 of the
\* customer labels of the last floor(n/3) segments are joy or neutral.
C4_RecoveryOnFloorThirds ==
    pc = "scored" =>
        quality.unclamped =
            FormulaScore + IF StatedRecovery THEN 2 * Unit(Segments) ELSE 0

\* C5: the de-escalation list holds the timestamp of index i exactly once
\* for every i >= 2 with customer[i-2] negative, operator[i-1] neutral or joy
\* and customer[i] neutral or joy, and nothing else; with the customer
\* negative only at index 3 and the operator joy at index 4 it holds the
\* timestamp of index 5 exactly once.
C5_DeEscalationList ==
    pc = "moments" =>
        /\ \A i \in 0 .. (Segments - 1) :
              Occurrences(key_moments.good_responses, TimestampOf(i)) =
                  IF /\ i >= 2
                     /\ customer[i - 1] = "negative"
                     /\ operator[i] \in {"neutral", "joy"}
                     /\ customer[i + 1] \in {"neutral", "joy"}
                  THEN 1 ELSE 0
        /\ \A k \in 1..Len(key_moments.good_responses) :
              \E i \in 0 .. (Segments - 1) :
                  key_moments.good_responses[k] = TimestampOf(i)
        /\ (/\ Segments >= 6
            /\ \A i \in 0 .. (Segments - 1) :
                  (customer[i + 1] = "negative") <=> (i = 3)
            /\ operator[5] = "joy")
           => Occurrences(key_moments.good_responses, TimestampOf(5)) = 1

\* the hand-made timelines: customer negative only at index 3, operator joy
\* at index 4, and the list is the timestamp of index 5 alone
C5_Witness ==
    /\ pc = "moments"
    /\ Segments >= 6
    /\ \A i \in 0 .. (Segments - 1) : (customer[i + 1] = "negative") <=> (i = 3)
    /\ operator[5] = "joy"
    /\ key_moments.good_responses = <<TimestampOf(5)>>

\* C6: the customer-turns-negative list holds the timestamp of index i iff
\* i >= 1, customer[i] is negative and customer[i-1] is not; the timestamps
\* come in increasing index order, each at most once.
C6_TurnsNegativeList ==
    pc = "moments" =>
        /\ \A i \in 0 .. (Segments - 1) :
              (\E k \in 1..Len(key_moments.negative_customer) :
                    key_moments.negative_customer[k] = TimestampOf(i))
              <=> (/\ i >= 1
                   /\ customer[i + 1] = "negative"
                   /\ customer[i] # "negative")
        /\ \A k \in 1..Len(key_moments.negative_customer) :
              \E i \in 0 .. (Segments - 1) :
                  key_moments.negative_customer[k] = TimestampOf(i)
        /\ \A k, l \in 1..Len(key_moments.negative_customer) :
              k < l => key_moments.negative_customer[k]
                           < key_moments.negative_customer[l]

\* the customer turns negative and then stays negative, which adds nothing
C6_Witness ==
    /\ pc = "moments"
    /\ Len(key_moments.negative_customer) = 1
    /\ customer[1] # "negative"
    /\ \E i \in 1 .. (Segments - 1) :
          customer[i + 1] = "negative" /\ customer[i] = "negative"

\* C7: the operator-failed-to-adapt list holds the timestamp of index i iff
\* i >= 1, customer[i-1] is negative and operator[i] is neither neutral nor
\* joy.
C7_FailedToAdaptList ==
    pc = "moments" =>
        /\ \A i \in 0 .. (Segments - 1) :
              (\E k \in 1..Len(key_moments.bad_responses) :
                    key_moments.bad_responses[k] = TimestampOf(i))
              <=> (/\ i >= 1
                   /\ customer[i] = "negative"
                   /\ operator[i + 1] # "neutral"
                   /\ operator[i + 1] # "joy")
        /\ \A k \in 1..Len(key_moments.bad_responses) :
              \E i \in 0 .. (Segments - 1) :
                  key_moments.bad_responses[k] = TimestampOf(i)

\* a negative customer is answered negatively once and calmly once
C7_Witness ==
    /\ pc = "moments"
    /\ Len(key_moments.bad_responses) >= 1
    /\ \E i \in 1 .. (Segments - 1) :
          customer[i] = "negative" /\ operator[i + 1] = "joy"
    /\ \E i \in 1 .. (Segments - 1) :
          customer[i] # "negative" /\ operator[i + 1] = "negative"

\* the list holds labels of the closed set only
LabelsOnly(list) == \A k \in 1..Len(list) : list[k] \in {"negative", "neutral", "joy"}

\* C8: every label a labelling operation produces (map_features_to_emotions,
\* smooth_emotions, analyze_emotions with its fallbacks, _map_emotions for any
\* recognizer output) is negative, neutral or joy.
C8_ClosedLabelSet ==
    /\ pc \in {"mapped", "smoothed"} => LabelsOnly(emotions)
    /\ pc = "smoothed" => LabelsOnly(smoothed)
    /\ pc \in {"operator_analyzed", "analyzed"} => LabelsOnly(operator)
    /\ pc = "analyzed" => LabelsOnly(customer)

\* the operator's call falls back to the default for a signal of three
\* seconds, the customer's call gets a name the mapping does not know
C8_Witness ==
    /\ pc = "analyzed"
    /\ branches = <<"raised", "default">>
    /\ operator = <<"neutral", "neutral", "neutral">>
    /\ customer = <<"neutral">>

\* C9: within one analysis run on signals of equal length the operator and
\* the customer emotion sequences have the same length, whichever call
\* succeeds or falls back.
C9_SameLength ==
    (pc = "analyzed" /\ operator_audio = customer_audio) =>
        Len(operator) = Len(customer)

\* C10: whenever a segment's raw negative score is below 5, the negative
\* score the label is chosen from is exactly 0, also after a negative label.
C10_GateForcesZero ==
    pc \in {"mapped", "smoothed"} =>
        \A i \in 1..Len(features) :
            negative_score(features, i) < 50 => scores[i].negative = 0

\* a segment with some negative hits, but fewer than 5, after a segment
\* labelled negative
C10_Witness ==
    /\ pc = "mapped"
    /\ \E i \in 2..Len(features) :
          /\ emotions[i - 1] = "negative"
          /\ negative_score(features, i) > 0
          /\ negative_score(features, i) < 50
          /\ scores[i].negative = 0

\* the place of a label in the order negative, joy, neutral
Rank(label) == CASE label = "negative" -> 1 [] label = "joy" -> 2 [] OTHER -> 3

\* the three raw scores of the segment i (1-based), summed from the hits
Raw(i, label) ==
    CASE label = "negative" -> negative_score(features, i)
      [] label = "joy" -> joy_score(features, i)
      [] OTHER -> neutral_score(features, i)

\* C11: for every segment the emitted label has a maximal final score, and
\* of the labels sharing the maximum it is the first in the order negative,
\* joy, neutral.
C11_FirstMaximum ==
    pc \in {"mapped", "smoothed"} =>
        \A i \in 1..Len(scores) :
            \A l \in EMOTION_CATEGORIES :
                /\ scores[i][l] <= scores[i][emotions[i]]
                /\ Rank(l) < Rank(emotions[i]) =>
                       scores[i][l] < scores[i][emotions[i]]

\* joy and neutral share the maximum of one segment and joy is emitted,
\* negative and joy share the maximum of another and negative is emitted
C11_Witness ==
    /\ pc = "mapped"
    /\ \E i \in 1..Len(scores) :
          /\ scores[i].joy = scores[i].neutral
          /\ scores[i].joy > scores[i].negative
          /\ emotions[i] = "joy"
    /\ \E i \in 1..Len(scores) :
          /\ scores[i].negative = scores[i].joy
          /\ scores[i].negative >= scores[i].neutral
          /\ emotions[i] = "negative"

\* the label emitted for the segment before i (None before the first)
PreviousLabel(i) == IF i > 1 THEN emotions[i - 1] ELSE None

\* C12 as stated: after the first segment the final score of the previous
\* segment's label is its raw score plus 0.3 and no other label is raised;
\* in the first segment no label is raised.
C12_BonusOnPreviousLabel ==
    pc = "mapped" =>
        \A i \in 1..Len(scores) :
            \A l \in EMOTION_CATEGORIES :
                IF l = PreviousLabel(i)
                THEN scores[i][l] = Raw(i, l) + 3
                ELSE scores[i][l] <= Raw(i, l)

\* C12 as amended: the final score is the raw score, plus 0.3 for the label
\* of the previous segment, except that the negative score is 0 whenever
\* the raw negative score is below 5, also when negative was the previous
\* label.
C12_BonusUnlessGated ==
    pc = "mapped" =>
        \A i \in 1..Len(scores) :
            \A l \in EMOTION_CATEGORIES :
                scores[i][l] =
                    IF l = "negative" /\ Raw(i, "negative") < 50 THEN 0
                    ELSE IF l = PreviousLabel(i) THEN Raw(i, l) + 3
                    ELSE Raw(i, l)

\* one call shows the bonus on each of the three labels, and the negative
\* bonus wiped by the gate
C12_Witness ==
    /\ pc = "mapped"
    /\ Len(scores) = 3
    /\ scores[1] = [l \in EMOTION_CATEGORIES |-> Raw(1, l)]
    /\ emotions[1] = "negative"
    /\ Raw(2, "negative") < 50
    /\ scores[2].negative = 0
    /\ emotions[2] # "negative"
    /\ scores[3][emotions[2]] = Raw(3, emotions[2]) + 3

\* the positions of the window of size 3 around p, clipped to the sequence
Around(p) == {k \in 1..Len(emotions) : k >= p - 1 /\ k <= p + 1}

CountAround(p, label) == Cardinality({k \in Around(p) : emotions[k] = label})

\* label is the most frequent of the window around p, and of the labels as
\* frequent it is the one met first
ModeAround(p, label) ==
    /\ CountAround(p, label) > 0
    /\ \A m \in EMOTION_CATEGORIES \ {label} :
           \/ CountAround(p, m) < CountAround(p, label)
           \/ /\ CountAround(p, m) = CountAround(p, label)
              /\ \E k \in Around(p) :
                     /\ emotions[k] = label
                     /\ \A j \in Around(p) : emotions[j] = m => k < j

\* C13 as stated: for a sequence of any length, also 3 or less, every
\* smoothed label is the most frequent label of the window around its
\* position in the unsmoothed sequence, ties to the label met first.
C13_ModeOfWindowAnyLength ==
    pc = "smoothed" =>
        /\ Len(smoothed) = Len(emotions)
        /\ \A p \in 1..Len(emotions) : ModeAround(p, smoothed[p])

\* C13 as amended: a sequence of more than 3 labels is smoothed as stated,
\* a sequence of at most 3 labels is returned unchanged.
C13_ModeOfWindowWhenLonger ==
    pc = "smoothed" =>
        /\ Len(smoothed) = Len(emotions)
        /\ Len(emotions) > 3 =>
               \A p \in 1..Len(emotions) : ModeAround(p, smoothed[p])
        /\ Len(emotions) <= 3 => smoothed = emotions

\* the sequence of the specification: the middle three stay negative, the
\* first position keeps neutral by the tie rule, the last turns negative
C13_Witness ==
    /\ pc = "smoothed"
    /\ emotions = <<"neutral", "negative", "negative", "negative", "neutral">>
    /\ smoothed = <<"neutral", "negative", "negative", "negative", "negative">>

\* the value returned is a number of the score scale
NumericScore == quality.score \in 0..(10 * Unit(Segments))

\* C19: for a timeline of zero segments calculate_call_quality reports a
\* failure to its caller and returns no numeric score.
C19_EmptyTimelineFails ==
    (pc = "scored" /\ Segments = 0) => ~NumericScore

\* the result of the k-th analyze_emotions call of the run
ResultOf(k) == IF k = 1 THEN operator ELSE customer

\* C20: a call of analyze_emotions made without a recognizer, or whose
\* recognition raises, returns (and so does not raise) a sequence of
\* neutral labels only.
C20_FailureGivesNeutral ==
    pc \in {"operator_analyzed", "analyzed"} =>
        \A k \in 1..Len(branches) :
            branches[k] \in {"no_recognizer", "raised"} =>
                \A p \in 1..Len(ResultOf(k)) : ResultOf(k)[p] = "neutral"

\* the operator's call succeeds with joy, the customer's recognition raises
\* on a signal of three seconds
C20_Witness ==
    /\ pc = "analyzed"
    /\ branches = <<"mapped", "raised">>
    /\ operator = <<"joy">>
    /\ customer = <<"neutral", "neutral", "neutral">>

\* C14: for every sample rate and band low_hz < high_hz the normalized
\* cutoffs handed to the filter design satisfy
\* 0.001 <= low_norm < high_norm <= 0.249 (here in units of
\* 1 / (40000 * sample_rate)), and bandpass_filter returns without raising.
C14_CutoffsInRange ==
    pc = "filtered" =>
        /\ ~returned.raised
        /\ 40 * sample_rate <= returned.low
        /\ returned.low < returned.high
        /\ returned.high <= 9960 * sample_rate

\* the two signals have the same sample values
SameSignal(a, b) ==
    /\ Len(a.samples) = Len(b.samples)
    /\ \A p \in 1..Len(a.samples) :
           a.samples[p] * b.scale = b.samples[p] * a.scale

AllZero(sig) == \A p \in 1..Len(sig.samples) : sig.samples[p] = 0

\* the largest magnitude of the signal's samples is 1
PeakIsOne(sig) ==
    /\ \E p \in 1..Len(sig.samples) : Abs(sig.samples[p]) = sig.scale
    /\ \A p \in 1..Len(sig.samples) : Abs(sig.samples[p]) <= sig.scale

\* C15: for a signal of at least one sample normalize_audio does not raise;
\* the result has maximum magnitude 1 when a sample is not zero, is the
\* signal itself when all samples are zero, and normalizing the result again
\* gives the same signal.
C15_NormalizeToPeakOne ==
    (pc \in {"normalized", "renormalized"} /\ input_audio.samples # <<>>) =>
        /\ ~returned.raised
        /\ ~AllZero(input_audio) => PeakIsOne(returned)
        /\ AllZero(input_audio) => returned = input_audio
        /\ pc = "renormalized" => SameSignal(returned, input_audio)

\* a signal whose largest magnitude is that of a negative sample, normalized
\* twice
C15_Witness ==
    /\ pc = "renormalized"
    /\ input_audio = Signal(<<1, 0 - 2, 0>>, 2)
    /\ returned = Signal(<<1, 0 - 2, 0>>, 2)

\* C16: where the mono heuristic builds its masks, operator_mask[s] +
\* customer_mask[s] = 1 at every sample position s of the signal, the
\* positions after the last full frame and those of the cross-fades
\* included.
C16_MasksSumToOne ==
    (pc = "separated" /\ returned.path = "mono") =>
        \A p \in 1..Len(masks.operator_mask) :
            masks.operator_mask[p] + masks.customer_mask[p] = masks.unit

\* the array separate_speakers_from_mono is called with
MonoArgument ==
    IF decoder = "pydub" THEN <<Interleave(input_audio)>> ELSE input_audio

\* C17: when a step of the mono heuristic raises, the operator and the
\* customer signal returned are both the array exactly as it was passed
\* in, neither averaged nor normalized, with the sample rate passed in.
C17_FailOpenReturnsInput ==
    (pc = "separated" /\ returned.path = "mono_failed") =>
        /\ Len(MonoArgument) = 1
        /\ SameSignal(returned.operator_audio,
                      Signal(MonoArgument[1], PcmScale))
        /\ SameSignal(returned.customer_audio,
                      Signal(MonoArgument[1], PcmScale))
        /\ returned.sample_rate = sample_rate

\* C18: a recording of exactly two channels comes back as channel 0 for the
\* operator and channel 1 for the customer, every sample unchanged and
\* without the mono heuristic, whichever backend decodes it; every other
\* recording goes through the mono heuristic.
C18_TwoChannelsVerbatim ==
    (pc = "separated" /\ decoder \in {"librosa", "pydub"}) =>
        IF Len(input_audio) = 2
        THEN /\ returned.path = "stereo"
             /\ returned.operator_audio = Signal(input_audio[1], PcmScale)
             /\ returned.customer_audio = Signal(input_audio[2], PcmScale)
             /\ returned.sample_rate = sample_rate
        ELSE returned.path \in {"mono", "mono_failed"}

\* two different channels decoded by the alternate backend
C18_Witness ==
    /\ pc = "separated"
    /\ decoder = "pydub"
    /\ input_audio = <<<<1, 1, 0, 0, 1>>, <<1, 0, 0, 1, 1>>>>
    /\ returned.path = "stereo"
    /\ returned.operator_audio.samples = <<1, 1, 0, 0, 1>>
    /\ returned.customer_audio.samples = <<1, 0, 0, 1, 1>>

\* C24: no segment whose raw negative score is below 5 is labelled negative,
\* at any position and for any joy and neutral scores, both 0 included.
C24_GatedNeverNegative ==
    pc = "mapped" =>
        \A i \in 1..Len(features) :
            Raw(i, "negative") < 50 => emotions[i] # "negative"

\* C25: when all feature vectors of a call are identical, a single segment
\* included, every segment is labelled neutral, whatever the rolloff, the
\* bandwidth, the flatness and the cepstral vector are.
C25_IdenticalVectorsNeutral ==
    (/\ pc = "mapped"
     /\ \A i, j \in 1..Len(features) : features[i] = features[j]) =>
        \A i \in 1..Len(features) : emotions[i] = "neutral"

\* three copies of the harshest vector, whose raw negative score of 4.6
\* equals its neutral score and is gated
C25_Witness ==
    /\ pc = "mapped"
    /\ Len(features) = MaxSegments
    /\ \A i, j \in 1..Len(features) : features[i] = features[j]
    /\ Raw(1, "negative") = 46
    /\ Raw(1, "neutral") = 46
    /\ \A i \in 1..Len(features) : emotions[i] = "neutral"

\* the labels of the list occur in the other list
LabelsAmong(list, other) ==
    \A k \in 1..Len(list) : \E j \in 1..Len(other) : list[k] = other[j]

\* C26: map_features_to_emotions returns one label per feature vector, the
\* label at position i chosen from the scores of vector i; smooth_emotions
\* returns a list of the length of its input that holds only labels of its
\* input.
C26_LengthAndLabelsKept ==
    /\ pc = "mapped" =>
          /\ Len(emotions) = Len(features)
          /\ Len(scores) = Len(features)
          /\ \A i \in 1..Len(features) :
                emotions[i] = ArgMaxFirst(scores[i])
    /\ pc = "smoothed" =>
          /\ Len(smoothed) = Len(emotions)
          /\ LabelsAmong(smoothed, emotions)

\* a list of more than three labels, two of them different, is smoothed into
\* a different list
C26_Witness ==
    /\ pc = "smoothed"
    /\ Len(emotions) > 3
    /\ smoothed # emotions
    /\ Len(smoothed) = Len(emotions)
    /\ \E k \in 1..Len(emotions) : ~LabelsAmong(<<emotions[k]>>, smoothed)

\* C27: for a list of more than 3 labels smoothed with window 3, the first
\* label is kept and the last label becomes the second-to-last label of the
\* input.
C27_SmoothedEnds ==
    (pc = "smoothed" /\ Len(emotions) > 3) =>
        /\ smoothed[1] = emotions[1]
        /\ smoothed[Len(emotions)] = emotions[Len(emotions) - 1]

\* the last label differs from the one before it and is replaced by it
C27_Witness ==
    /\ pc = "smoothed"
    /\ emotions = <<"joy", "neutral", "negative", "joy">>
    /\ smoothed = <<"joy", "joy", "neutral", "negative">>

\* C28: for timelines over the closed label set, the operator-failed-to-adapt
\* list has as many timestamps as calculate_call_quality counts mirrored
\* negatives, and no timestamp is both in the customer-turns-negative list
\* and in the operator-de-escalated list.
C28_ListsAgreeWithScorer ==
    pc = "reported" =>
        /\ Len(key_moments.bad_responses) = quality.negative_mirror
        /\ \A k \in 1..Len(key_moments.negative_customer) :
              \A l \in 1..Len(key_moments.good_responses) :
                  key_moments.negative_customer[k] # key_moments.good_responses[l]

\* a call with a mirrored negative, a turn to negative and a de-escalation,
\* in which the customer is also negative where the operator is not
C28_Witness ==
    /\ pc = "reported"
    /\ quality.negative_mirror >= 1
    /\ Len(key_moments.negative_customer) >= 1
    /\ Len(key_moments.good_responses) >= 1
    /\ \E i \in 1..Segments :
          customer[i] = "negative" /\ operator[i] # "negative"

\* C29: the score before clamping is at least 1.0, so the returned score is
\* the smaller of it and 10; the score before clamping can exceed 10.
C29_LowerClampIdle ==
    pc \in {"scored", "reported"} =>
        /\ quality.unclamped >= 1 * Unit(Segments)
        /\ quality.score = Min(quality.unclamped, 10 * Unit(Segments))

\* a recovered call whose score before clamping is above 10
C29_Witness ==
    /\ pc = "scored"
    /\ quality.recovery
    /\ quality.unclamped > 10 * Unit(Segments)
    /\ quality.score < quality.unclamped

\* C21: separate_channels never propagates an exception: whatever the
\* decoders do with the file, the call returns an operator signal, a customer
\* signal and a sample rate.
C21_NeverPropagates ==
    pc = "separated" =>
        /\ ~returned.raised
        /\ returned.path # "raised"

\* the segments of one second that start every half second in a signal of
\* operator_audio samples: start k * rate/2 below the signal's end, end at
\* most a second later
NominalSegment(k) ==
    [start |-> k * (sample_rate \div 2),
     end |-> Min(k * (sample_rate \div 2) + sample_rate, operator_audio)]

\* C22: extract_features emits one feature vector for every segment of one
\* second starting at a multiple of half a second, the shorter segments at
\* the tail included, except those shorter than half a second, and for
\* nothing else.
C22_SegmentsWithTail ==
    pc = "cut" =>
        /\ \A k \in 0..operator_audio :
              k * (sample_rate \div 2) < operator_audio =>
                  Occurrences(segments, NominalSegment(k)) =
                      IF 2 * (NominalSegment(k).end - NominalSegment(k).start)
                             < sample_rate
                      THEN 0 ELSE 1
        /\ \A j \in 1..Len(segments) :
              \E k \in 0..operator_audio : segments[j] = NominalSegment(k)

\* the entries analyze_audio_file reads from a report without an error
ReportFields ==
    {"has_speech", "is_too_quiet", "is_unclear", "original_rms",
     "enhanced_rms"}

\* the texts of a recommendations list
Messages ==
    {"check the path", "supported formats", "check format and access",
     "too quiet", "unclear", "no speech"}

\* C23: for every path get_audio_quality_report returns a mapping with a
\* list under 'recommendations' and either an 'error' entry or all of
\* has_speech, is_too_quiet, is_unclear, original_rms and enhanced_rms.
C23_ReportAlwaysReadable ==
    pc = "quality_report" =>
        /\ "recommendations" \in DOMAIN report
        /\ report["recommendations"] \in Seq(Messages)
        /\ \/ "error" \in DOMAIN report
           \/ ReportFields \subseteq DOMAIN report

\* the analysis raises after the first measurement: the report has no error
\* entry, the level before and no level after
C23_Witness ==
    /\ pc = "quality_report"
    /\ audio_path.fails_at = "normalize_audio"
    /\ "error" \notin DOMAIN report
    /\ report["is_too_quiet"]
    /\ report["enhanced_rms"] = 0
    /\ report["recommendations"] = <<"too quiet", "no speech">>

\* C30: in every state of a dashboard session current_file is unset or a
\* key of analysis_results, every id of processed_files is a key of
\* analysis_results and occurs once, and after a processing run that failed
\* the three are what they were before it.
C30_SessionConsistent ==
    pc = "session" =>
        /\ current_file = None \/ current_file \in DOMAIN analysis_results
        /\ \A k \in 1..Len(processed_files) :
              /\ processed_files[k] \in DOMAIN analysis_results
              /\ Occurrences(processed_files, processed_files[k]) = 1
        /\ last_run.raised => SessionState = last_run.before

\* a second recording processed within the second of the first one takes its
\* id and its place, while an older recording is listed before it
C30_Witness ==
    /\ pc = "session"
    /\ last_run.action = "process"
    /\ ~last_run.raised
    /\ Len(processed_files) = 2
    /\ last_run.before.processed_files = processed_files
    /\ last_run.before.current_file = processed_files[1]
    /\ current_file = processed_files[2]
    /\ analysis_results[current_file].filename
           # last_run.before.analysis_results[current_file].filename

=============================================================================
